---- MODULE Spec2Model ----
(***************************************************************************)
(* Model of core/db.py: the Database handler over one sqlite3 connection   *)
(* and one shared cursor.  The file on disk holds the committed contents;  *)
(* the connection sees its own view (committed contents plus the changes   *)
(* of an open transaction).                                                *)
(***************************************************************************)
EXTENDS Integers, Sequences, FiniteSets, TLC

\* Most rows the connection's view may hold (inserts are disabled beyond it).
MaxRows == 2

\* Number of callers sharing the store in the interleaved specification.
NumCallers == 2

(***************************************************************************)
(* Values and the schema                                                   *)
(***************************************************************************)

\* Python values bound as parameters / returned in rows: None, str, int, float.
NULL == [k |-> "null", v |-> ""]
TextV(s) == [k |-> "text", v |-> s]
IntV(s) == [k |-> "int", v |-> s]
RealV(s) == [k |-> "real", v |-> s]

\* The parameter values callers bind in this model.
ParamValues == {NULL, TextV("1"), IntV("1")}

\* Text that is a well-formed integer literal, and its rendering as a float.
IntLiterals == {"1"}
AsRealText(s) == IF s = "1" THEN "1.0" ELSE s

T18 == [i \in 1..18 |-> "TEXT"]

\* Declared column types of the eight tables, in declaration order.
Schema ==
  [ geo             |-> T18,
    networks        |-> <<"TEXT", "TEXT", "INTEGER", "TEXT", "TEXT">>,
    requests        |-> <<"TEXT", "TEXT", "TEXT", "TEXT", "TEXT", "TEXT", "TEXT">>,
    victims         |-> <<"TEXT", "TEXT", "TEXT", "REAL", "TEXT", "TEXT", "TEXT",
                          "TEXT", "TEXT", "TEXT">>,
    victims_data    |-> <<"TEXT", "TEXT", "DATE", "TEXT", "TEXT", "TEXT">>,
    victims_battery |-> <<"TEXT", "TEXT", "REAL", "REAL", "REAL">>,
    clicks          |-> <<"TEXT", "TEXT", "TEXT">>,
    hostsalive      |-> <<"TEXT", "TEXT", "TEXT", "TEXT">> ]

TableNames == DOMAIN Schema

\* Column holding the PRIMARY KEY of a table (0: none declared).
PrimaryKey(t) == IF t = "geo" THEN 1 ELSE 0

\* Conversion the engine applies to a value stored in a column of declared
\* type decl (type affinity): numbers become text in TEXT columns, text that
\* looks like a number becomes a number in INTEGER, REAL and DATE columns.
AffinityAllText(decl, val) ==
  IF val.k \in {"int", "real"} THEN TextV(val.v) ELSE val

Affinity(decl, val) ==
  IF val.k = "null" THEN val
  ELSE IF decl = "TEXT" THEN
         (IF val.k \in {"int", "real"} THEN TextV(val.v) ELSE val)
  ELSE IF decl \in {"INTEGER", "DATE"} THEN
         (IF val.k = "text" /\ val.v \in IntLiterals THEN IntV(val.v) ELSE val)
  ELSE \* REAL
         (IF val.k = "int" THEN RealV(AsRealText(val.v))
          ELSE IF val.k = "text" /\ val.v \in IntLiterals
                 THEN RealV(AsRealText(val.v))
          ELSE val)

(***************************************************************************)
(* Databases                                                               *)
(***************************************************************************)

\* A database: the set of tables that exist and the rows of each, in rowid
\* order.
EmptyDb == [tables |-> {}, rows |-> [t \in TableNames |-> <<>>]]

\* The database the schema script of _initialize_database produces from db:
\* CREATE TABLE IF NOT EXISTS for all eight tables.
WithSchema(db) == [db EXCEPT !.tables = TableNames]

RECURSIVE SumRows(_, _)
SumRows(db, ts) ==
  IF ts = {} THEN 0
  ELSE LET t == CHOOSE x \in ts : TRUE
       IN Len(db.rows[t]) + SumRows(db, ts \ {t})

TotalRows(db) == SumRows(db, TableNames)

(***************************************************************************)
(* Statements                                                              *)
(***************************************************************************)

\* SQL text with its positional parameters, as the engine understands it:
\*   select: SELECT * FROM table            (where = "none": ... WHERE 0)
\*   insert: INSERT INTO table (col) VALUES (?)  with params (val,)
\*   create: CREATE TABLE IF NOT EXISTS table (...), as in the schema script
\*   bad   : text the engine cannot parse
Stmt(kind, table, col, val, where) ==
  [kind |-> kind, table |-> table, col |-> col, val |-> val, where |-> where]

SelectStmt(t, w) == Stmt("select", t, 0, NULL, w)
InsertStmt(t, c, val) == Stmt("insert", t, c, val, "all")
CreateStmt(t) == Stmt("create", t, 0, NULL, "all")
BadStmt == Stmt("bad", "", 0, NULL, "all")
NoStmt == Stmt("none", "", 0, NULL, "all")

\* Columns the model's INSERT statements write: one of each declared type,
\* among them the primary key of geo.
InsertTargets ==
  { <<"geo", 1>>, <<"networks", 3>>, <<"victims", 4>>, <<"victims_data", 3>> }

UsedTables == { tc[1] : tc \in InsertTargets }

\* Tables the model's CREATE TABLE statements name.
CreatedTables == {"geo", "networks"}

\* Names passed as a table name: tables of the schema and one that is not.
QueryNames == UsedTables \cup {"nosuch"}

Statements ==
     { SelectStmt(t, "all") : t \in QueryNames }
  \cup { SelectStmt("geo", "none") }
  \cup { InsertStmt(tc[1], tc[2], val) : tc \in InsertTargets, val \in ParamValues }
  \cup { CreateStmt(t) : t \in CreatedTables }
  \cup { BadStmt }

\* f"SELECT * FROM {table_name}"
SelectAllFromFixed(table_name) == SelectStmt("geo", "all")

SelectAllFrom(table_name) == SelectStmt(table_name, "all")

\* The row INSERT INTO t (c) VALUES (val) stores: val under the affinity of
\* column c, NULL in every other column.
NewRow(t, c, val) ==
  [i \in 1..Len(Schema[t]) |-> IF i = c THEN Affinity(Schema[t][i], val) ELSE NULL]

\* Does row violate the primary key of t in db?
ViolatesKey(db, t, row) ==
  /\ PrimaryKey(t) # 0
  /\ row[PrimaryKey(t)] # NULL
  /\ \E i \in 1..Len(db.rows[t]) : db.rows[t][i][PrimaryKey(t)] = row[PrimaryKey(t)]

(***************************************************************************)
(* The connection and its cursor                                           *)
(***************************************************************************)

\* Exception classes of the sqlite3 module that derive from sqlite3.Error.
Sqlite3Error == {"OperationalError", "IntegrityError", "ProgrammingError"}

\* except sqlite3.Error: is an exception of class err caught?
CatchesOperationalOnly(err) == err = "OperationalError"

Catches(err) == err \in Sqlite3Error

\* State of the store the operators below transform:
\*   conn   "open" or "closed"
\*   disk   committed contents of the file
\*   work   contents as the connection sees them
\*   inTxn  a transaction is open on the connection
\*   cursor rows of the shared cursor not fetched yet
\*   err    class of the exception the last engine call raised, or "none"
Failed(s, e) == [s EXCEPT !.cursor = <<>>, !.err = e]

\* self.cursor.execute(query, params)
CursorExecute(s, stmt) ==
  IF s.conn # "open" THEN [s EXCEPT !.err = "ProgrammingError"]
  ELSE IF stmt.kind = "bad" THEN Failed(s, "OperationalError")
  ELSE IF stmt.kind = "select" THEN
    IF stmt.table \notin s.work.tables THEN Failed(s, "OperationalError")
    ELSE [s EXCEPT !.err = "none",
                   !.cursor = IF stmt.where = "all"
                                THEN s.work.rows[stmt.table] ELSE <<>>]
  ELSE IF stmt.kind = "insert" THEN
    IF stmt.table \notin s.work.tables THEN Failed(s, "OperationalError")
    ELSE LET row == NewRow(stmt.table, stmt.col, stmt.val)
         IN \* the module opens a transaction before INSERT/UPDATE/DELETE
            IF ViolatesKey(s.work, stmt.table, row)
              THEN [Failed(s, "IntegrityError") EXCEPT !.inTxn = TRUE]
              ELSE [s EXCEPT !.err = "none", !.cursor = <<>>, !.inTxn = TRUE,
                             !.work.rows[stmt.table] = Append(@, row)]
  ELSE \* create: no transaction is opened for it; outside a transaction the
       \* engine commits the statement by itself
    LET w == [s.work EXCEPT !.tables = @ \cup {stmt.table}]
    IN [s EXCEPT !.err = "none", !.cursor = <<>>, !.work = w,
                 !.disk = IF s.inTxn THEN @
                          ELSE [@ EXCEPT !.tables = @ \cup {stmt.table}]]

\* self.conn.commit()
ConnCommit(s) == [s EXCEPT !.disk = s.work, !.inTxn = FALSE]

\* self.cursor.fetchall() / self.cursor.fetchone() (<<>> stands for None)
FetchAll(s) == [rows |-> s.cursor, s |-> [s EXCEPT !.cursor = <<>>]]

FetchOneLast(s) ==
  IF s.cursor = <<>> THEN [rows |-> <<>>, s |-> s]
  ELSE [rows |-> <<s.cursor[Len(s.cursor)]>>, s |-> [s EXCEPT !.cursor = <<>>]]

FetchOneRow(s) ==
  IF s.cursor = <<>> THEN [rows |-> <<>>, s |-> s]
  ELSE [rows |-> <<Head(s.cursor)>>, s |-> [s EXCEPT !.cursor = Tail(@)]]

\* self.conn.close(): an open transaction is rolled back; closing a closed
\* connection does nothing.
ConnCloseRaising(s) ==
  IF s.conn = "closed" THEN [s EXCEPT !.err = "ProgrammingError"]
  ELSE [s EXCEPT !.conn = "closed", !.work = s.disk, !.inTxn = FALSE,
                 !.cursor = <<>>, !.err = "none"]

ConnClose(s) ==
  [s EXCEPT !.conn = "closed", !.work = s.disk, !.inTxn = FALSE,
            !.cursor = <<>>, !.err = "none"]

(***************************************************************************)
(* State                                                                   *)
(***************************************************************************)

VARIABLES
  fileExists,  \* a file exists at db_path
  disk,        \* committed contents of that file
  conn,        \* self.conn: "none" before construction, "open", "closed"
  work,        \* contents as the connection sees them
  inTxn,       \* a transaction is open on the connection
  cursor,      \* self.cursor: rows of its statement not fetched yet
  last,        \* the last completed call and what it returned
  pc,          \* interleaved callers: position of each caller in its call
  call,        \* interleaved callers: operation and statement of each
  own,         \* interleaved callers: rows each caller's statement produced
  cret         \* interleaved callers: value each call returned

vars == <<fileExists, disk, conn, work, inTxn, cursor, last, pc, call, own, cret>>
callerVars == <<pc, call, own, cret>>

Callers == 1..NumCallers

\* Return values: a list of rows, a flag, one row, None, or no value at all
\* because an exception left the method.
RowsRet(rows) == [t |-> "rows", rows |-> rows, ok |-> FALSE]
BoolRet(b) == [t |-> "bool", rows |-> <<>>, ok |-> b]
RowRet(row) == [t |-> "row", rows |-> <<row>>, ok |-> FALSE]
NoneRet == [t |-> "none", rows |-> <<>>, ok |-> FALSE]
Raised == [t |-> "raise", rows |-> <<>>, ok |-> FALSE]

St == [conn |-> conn, disk |-> disk, work |-> work, inTxn |-> inTxn,
       cursor |-> cursor, err |-> "none"]

Becomes(s) ==
  /\ conn' = s.conn
  /\ disk' = s.disk
  /\ work' = s.work
  /\ inTxn' = s.inTxn
  /\ cursor' = s.cursor

\* Outcome of a method: the store afterwards, the value returned, the class
\* of the exception the engine raised and of the one that left the method.
Outcome(s, ret) ==
  [s |-> s, ret |-> ret, err |-> s.err, raised |-> "none"]

Propagates(s) ==
  [s |-> s, ret |-> Raised, err |-> s.err, raised |-> s.err]

(***************************************************************************)
(* The methods of Database                                                 *)
(***************************************************************************)

\* if not os.path.exists(self.db_path), evaluated once sqlite3.connect has
\* opened the path; existsNow is whether the file exists at that moment.
NeedsInitAlways(existsNow) == TRUE

NeedsInit(existsNow) == ~existsNow

RECURSIVE RunSchema(_, _)
RunSchema(s, ts) ==
  IF ts = {} THEN s
  ELSE LET t == CHOOSE x \in ts : TRUE
       IN RunSchema(CursorExecute(s, CreateStmt(t)), ts \ {t})

\* _initialize_database: every CREATE TABLE IF NOT EXISTS, then commit.
InitializeDatabase(s) == ConnCommit(RunSchema(s, TableNames))

\* __init__: sqlite3.connect creates the file when there is none, so the
\* file exists by the time os.path.exists looks at the path.
Init__(existed, onDisk) ==
  LET opened == [conn |-> "open",
                 disk |-> IF existed THEN onDisk ELSE EmptyDb,
                 work |-> IF existed THEN onDisk ELSE EmptyDb,
                 inTxn |-> FALSE, cursor |-> <<>>, err |-> "none"]
      existsNow == TRUE
  IN IF NeedsInit(existsNow)
       THEN Outcome(InitializeDatabase(opened), BoolRet(TRUE))
       ELSE Outcome(opened, BoolRet(FALSE))

execute_queryCommitting(s, stmt) ==
  LET e == CursorExecute(s, stmt)
  IN IF e.err = "none"
       THEN LET f == FetchAll(e) IN Outcome(ConnCommit(f.s), RowsRet(f.rows))
     ELSE IF Catches(e.err) THEN Outcome(e, RowsRet(<<>>))
     ELSE Propagates(e)

execute_query(s, stmt) ==
  LET e == CursorExecute(s, stmt)
  IN IF e.err = "none"
       THEN LET f == FetchAll(e) IN Outcome(f.s, RowsRet(f.rows))
     ELSE IF Catches(e.err) THEN Outcome(e, RowsRet(<<>>))
     ELSE Propagates(e)

execute_insertNoCommit(s, stmt) ==
  LET e == CursorExecute(s, stmt)
  IN IF e.err = "none" THEN Outcome(e, BoolRet(TRUE))
     ELSE IF Catches(e.err) THEN Outcome(e, BoolRet(FALSE))
     ELSE Propagates(e)

execute_insert(s, stmt) ==
  LET e == CursorExecute(s, stmt)
  IN IF e.err = "none" THEN Outcome(ConnCommit(e), BoolRet(TRUE))
     ELSE IF Catches(e.err) THEN Outcome(e, BoolRet(FALSE))
     ELSE Propagates(e)

fetch_one(s, stmt) ==
  LET e == CursorExecute(s, stmt)
  IN IF e.err = "none"
       THEN LET f == FetchOneRow(e)
            IN Outcome(f.s, IF f.rows = <<>> THEN NoneRet ELSE RowRet(f.rows[1]))
     ELSE IF Catches(e.err) THEN Outcome(e, NoneRet)
     ELSE Propagates(e)

get_table_data(s, table_name) == execute_query(s, SelectAllFrom(table_name))

\* if self.conn: self.conn.close()  -- a Connection object is always true
close_connection(s) ==
  LET c == ConnClose(s)
  IN IF c.err = "none" THEN Outcome(c, NoneRet) ELSE Propagates(c)

(***************************************************************************)
(* One caller: every call runs to completion before the next starts        *)
(***************************************************************************)

Call(op, stmt, o) ==
  [op |-> op, stmt |-> stmt, ret |-> o.ret, err |-> o.err,
   raised |-> o.raised, pre |-> conn]

NoCall ==
  [op |-> "none", stmt |-> NoStmt, ret |-> NoneRet, err |-> "none",
   raised |-> "none", pre |-> "none"]

\* The file at db_path before the first construction: absent, or a database
\* that already holds the eight tables.
Init ==
  /\ fileExists \in BOOLEAN
  /\ disk = IF fileExists THEN WithSchema(EmptyDb) ELSE EmptyDb
  /\ conn = "none"
  /\ work = EmptyDb
  /\ inTxn = FALSE
  /\ cursor = <<>>
  /\ last = NoCall
  /\ pc = [c \in Callers |-> "idle"]
  /\ call = [c \in Callers |-> [op |-> "none", stmt |-> NoStmt]]
  /\ own = [c \in Callers |-> <<>>]
  /\ cret = [c \in Callers |-> NoneRet]

Idle == \A c \in Callers : pc[c] = "idle"

\* Inserts stop once the connection's view holds MaxRows rows.
Fits(stmt) == stmt.kind = "insert" => TotalRows(work) < MaxRows

Done(op, stmt, o) ==
  /\ Becomes(o.s)
  /\ last' = Call(op, stmt, o)
  /\ UNCHANGED callerVars

Construct ==
  /\ Idle
  /\ conn \in {"none", "closed"}
  /\ fileExists' = TRUE
  /\ Done("__init__", NoStmt, Init__(fileExists, disk))

ExecuteQuery ==
  /\ Idle /\ conn # "none"
  /\ \E stmt \in Statements :
       /\ Fits(stmt)
       /\ Done("execute_query", stmt, execute_query(St, stmt))
  /\ UNCHANGED fileExists

ExecuteInsert ==
  /\ Idle /\ conn # "none"
  /\ \E stmt \in Statements :
       /\ Fits(stmt)
       /\ Done("execute_insert", stmt, execute_insert(St, stmt))
  /\ UNCHANGED fileExists

FetchOne ==
  /\ Idle /\ conn # "none"
  /\ \E stmt \in Statements :
       /\ Fits(stmt)
       /\ Done("fetch_one", stmt, fetch_one(St, stmt))
  /\ UNCHANGED fileExists

GetTableData ==
  /\ Idle /\ conn # "none"
  /\ \E name \in QueryNames :
       Done("get_table_data", SelectStmt(name, "all"), get_table_data(St, name))
  /\ UNCHANGED fileExists

CloseConnection ==
  /\ Idle /\ conn # "none"
  /\ Done("close_connection", NoStmt, close_connection(St))
  /\ UNCHANGED fileExists

Next ==
  \/ Construct
  \/ ExecuteQuery
  \/ ExecuteInsert
  \/ FetchOne
  \/ GetTableData
  \/ CloseConnection

Spec == Init /\ [][Next]_vars

(***************************************************************************)
(* Several callers on one store: check_same_thread=False and no lock, so   *)
(* the engine calls of different callers interleave on the shared cursor   *)
(***************************************************************************)

\* Statements and methods the interleaved callers use.
SharedStatements ==
  { SelectStmt("geo", "all"), SelectStmt("networks", "all"),
    InsertStmt("geo", 1, TextV("1")), InsertStmt("networks", 3, IntV("1")) }

SharedOps == {"execute_query", "execute_insert", "fetch_one"}

\* The value a method returns when the engine raised inside its try block.
Degraded(op) ==
  IF op \in {"execute_query", "get_table_data"} THEN RowsRet(<<>>)
  ELSE IF op = "execute_insert" THEN BoolRet(FALSE)
  ELSE NoneRet

\* A caller enters a method.
Begin(c) ==
  /\ pc[c] = "idle"
  /\ conn # "none"
  /\ \E op \in SharedOps, stmt \in SharedStatements :
       /\ Fits(stmt)
       /\ call' = [call EXCEPT ![c] = [op |-> op, stmt |-> stmt]]
  /\ pc' = [pc EXCEPT ![c] = "execute"]
  /\ UNCHANGED <<fileExists, disk, conn, work, inTxn, cursor, last, own, cret>>

\* self.cursor.execute(query, params) of the caller's method.
StepExecute(c) ==
  /\ pc[c] = "execute"
  /\ LET e == CursorExecute(St, call[c].stmt)
     IN /\ Becomes(e)
        /\ IF e.err = "none"
             THEN /\ own' = [own EXCEPT ![c] = e.cursor]
                  /\ pc' = [pc EXCEPT ![c] =
                              IF call[c].op = "execute_insert"
                                THEN "commit" ELSE "fetch"]
                  /\ UNCHANGED cret
             ELSE /\ cret' = [cret EXCEPT ![c] =
                                IF Catches(e.err) THEN Degraded(call[c].op)
                                ELSE Raised]
                  /\ pc' = [pc EXCEPT ![c] = "done"]
                  /\ UNCHANGED own
  /\ UNCHANGED <<fileExists, last, call>>

\* return self.cursor.fetchall() / return self.cursor.fetchone()
StepFetch(c) ==
  /\ pc[c] = "fetch"
  /\ IF conn # "open"
       THEN /\ cret' = [cret EXCEPT ![c] =
                          IF Catches("ProgrammingError")
                            THEN Degraded(call[c].op) ELSE Raised]
            /\ UNCHANGED <<conn, disk, work, inTxn, cursor>>
       ELSE LET f == IF call[c].op = "execute_query"
                       THEN FetchAll(St) ELSE FetchOneRow(St)
            IN /\ Becomes(f.s)
               /\ cret' = [cret EXCEPT ![c] =
                             IF call[c].op = "execute_query" THEN RowsRet(f.rows)
                             ELSE IF f.rows = <<>> THEN NoneRet
                             ELSE RowRet(f.rows[1])]
  /\ pc' = [pc EXCEPT ![c] = "done"]
  /\ UNCHANGED <<fileExists, last, call, own>>

\* self.conn.commit(); return True
StepCommit(c) ==
  /\ pc[c] = "commit"
  /\ IF conn # "open"
       THEN /\ cret' = [cret EXCEPT ![c] =
                          IF Catches("ProgrammingError")
                            THEN Degraded(call[c].op) ELSE Raised]
            /\ UNCHANGED <<conn, disk, work, inTxn, cursor>>
       ELSE /\ Becomes(ConnCommit(St))
            /\ cret' = [cret EXCEPT ![c] = BoolRet(TRUE)]
  /\ pc' = [pc EXCEPT ![c] = "done"]
  /\ UNCHANGED <<fileExists, last, call, own>>

\* close_connection by one of the callers, between the steps of the others.
StepClose(c) ==
  /\ pc[c] = "idle"
  /\ conn = "open"
  /\ Becomes(ConnClose(St))
  /\ UNCHANGED <<fileExists, last, callerVars>>

\* The method returns to its caller.
Return(c) ==
  /\ pc[c] = "done"
  /\ pc' = [pc EXCEPT ![c] = "idle"]
  /\ call' = [call EXCEPT ![c] = [op |-> "none", stmt |-> NoStmt]]
  /\ own' = [own EXCEPT ![c] = <<>>]
  /\ cret' = [cret EXCEPT ![c] = NoneRet]
  /\ UNCHANGED <<fileExists, disk, conn, work, inTxn, cursor, last>>

NextShared ==
  \/ Construct
  \/ \E c \in Callers :
       \/ Begin(c)
       \/ StepExecute(c)
       \/ StepFetch(c)
       \/ StepCommit(c)
       \/ StepClose(c)
       \/ Return(c)

SpecShared == Init /\ [][NextShared]_vars

(***************************************************************************)
(* Properties                                                              *)
(***************************************************************************)

LastRow(rows) == rows[Len(rows)]

\* Rows a statement yields when the engine accepts it on database db.
ResultRows(db, stmt) ==
  IF stmt.kind = "select" /\ stmt.where = "all" THEN db.rows[stmt.table] ELSE <<>>

\* The step is a successful execute_insert of an INSERT followed directly by
\* an execute_query of SELECT * on the same table.
InsertThenSelect ==
  /\ last.op = "execute_insert"
  /\ last.ret = BoolRet(TRUE)
  /\ last.stmt.kind = "insert"
  /\ last'.op = "execute_query"
  /\ last'.stmt = SelectStmt(last.stmt.table, "all")

\* The value is NULL or of the storage class the declared type prefers.
OfDeclaredClass(decl, val) ==
  \/ val.k = "null"
  \/ decl = "TEXT" /\ val.k = "text"
  \/ decl \in {"INTEGER", "DATE"} /\ val.k = "int"
  \/ decl = "REAL" /\ val.k = "real"

\* C1: constructing a store on a path where no file exists leaves all eight
\* tables present and queryable right after construction.
C1_FreshStoreHasSchema ==
  [][(last'.op = "__init__" /\ ~fileExists)
       => (disk'.tables = TableNames /\ work'.tables = TableNames)]_vars

\* C2: constructing a store on a path whose file exists does not run schema
\* creation, raises nothing, and leaves the tables and committed rows of the
\* file as they were.
C2_ReopenKeepsFile ==
  [][(last'.op = "__init__" /\ fileExists)
       => /\ disk' = disk
          /\ work' = disk
          /\ last'.raised = "none"
          /\ last'.ret = BoolRet(FALSE)]_vars

C2_Witness ==
  /\ last.op = "__init__"
  /\ conn = "open"
  /\ TotalRows(disk) > 0
  /\ disk.tables # TableNames

\* C3 (as stated): a successful execute_insert of a row followed by an
\* execute_query selecting it returns the inserted values exactly, whatever
\* the table and the values.
C3_RoundTripExact ==
  [][InsertThenSelect
       => /\ last'.ret.rows # <<>>
          /\ LastRow(last'.ret.rows)[last.stmt.col] = last.stmt.val]_vars

\* C3 (amended): the row comes back with NULL in the columns not supplied and
\* with the inserted value exactly when that value is NULL or of the storage
\* class of its column's declared type; a number stored in a TEXT column
\* comes back as text, numeric text stored in an INTEGER, DATE or REAL column
\* comes back as a number.
C3_RoundTripUpToAffinity ==
  [][InsertThenSelect
       => /\ last'.ret.t = "rows"
          /\ last'.ret.rows # <<>>
          /\ LET t == last.stmt.table
                 c == last.stmt.col
                 val == last.stmt.val
                 decl == Schema[t][c]
                 row == LastRow(last'.ret.rows)
             IN /\ Len(row) = Len(Schema[t])
                /\ \A i \in 1..Len(row) : i # c => row[i] = NULL
                /\ OfDeclaredClass(decl, val) => row[c] = val
                /\ (decl = "TEXT" /\ val.k = "int") => row[c] = TextV(val.v)
                /\ (decl \in {"INTEGER", "DATE"} /\ val = TextV("1"))
                     => row[c] = IntV("1")
                /\ (decl = "REAL" /\ val \in {TextV("1"), IntV("1")})
                     => row[c] = RealV("1.0")]_vars

C3_Witness ==
  /\ last.op = "execute_query"
  /\ last.stmt = SelectStmt("networks", "all")
  /\ Len(last.ret.rows) = 2
  /\ LastRow(last.ret.rows)[3] = IntV("1")
  /\ last.ret.rows[1][3] = NULL

\* C4: once the store is constructed, open or closed, a statement the engine
\* rejects never raises to the caller: execute_query and get_table_data
\* return an empty list, execute_insert False, fetch_one None.
C4_EngineErrorsDegrade ==
  (last.op \in {"execute_query", "execute_insert", "fetch_one", "get_table_data"})
    => /\ last.raised = "none"
       /\ last.ret.t # "raise"
       /\ last.err # "none" => last.ret = Degraded(last.op)

C4_Witness ==
  /\ last.op = "fetch_one"
  /\ last.pre = "closed"
  /\ last.err = "ProgrammingError"
  /\ last.ret = NoneRet

\* C5: fetch_one returns the first row of its query's result when there is
\* one, and None, without raising, when the query yields no row.
C5_FetchOneFirstRow ==
  [][(last'.op = "fetch_one" /\ last'.err = "none")
       => LET rows == ResultRows(work, last'.stmt)
          IN /\ last'.raised = "none"
             /\ rows # <<>> => last'.ret = RowRet(rows[1])
             /\ rows = <<>> => last'.ret = NoneRet]_vars

C5_Witness ==
  /\ last.op = "fetch_one"
  /\ last.stmt.kind = "select"
  /\ last.ret.t = "row"
  /\ Len(work.rows[last.stmt.table]) = 2
  /\ work.rows[last.stmt.table][1] # work.rows[last.stmt.table][2]

\* C6: get_table_data(name) returns what execute_query of SELECT * FROM name
\* returns and leaves the store as that call leaves it, for every name and
\* every state of the store.
C6_DumpIsSelectAll ==
  [][(last'.op = "get_table_data")
       => LET o == execute_query(St, SelectStmt(last'.stmt.table, "all"))
          IN /\ last'.ret = o.ret
             /\ last'.raised = o.raised
             /\ conn' = o.s.conn
             /\ disk' = o.s.disk
             /\ work' = o.s.work
             /\ inTxn' = o.s.inTxn
             /\ cursor' = o.s.cursor]_vars

C6_Witness ==
  /\ last.op = "get_table_data"
  /\ last.stmt.table = "victims"
  /\ last.ret.rows # <<>>
  /\ work.rows["geo"] # <<>>

\* C7: close_connection on a closed store raises nothing and changes nothing.
C7_CloseIdempotent ==
  [][(last'.op = "close_connection" /\ conn = "closed")
       => /\ last'.raised = "none"
          /\ last'.err = "none"
          /\ conn' = "closed"
          /\ UNCHANGED <<fileExists, disk, work, inTxn, cursor>>]_vars

C7_Witness ==
  /\ last.op = "close_connection"
  /\ last.pre = "closed"
  /\ conn = "closed"
  /\ TotalRows(disk) > 0

\* C8: when execute_insert returns True the change is committed and nothing
\* is pending on the connection; what is committed stays in the file through
\* every later call, close and re-opening included.
C8_Committed ==
  (last.op = "execute_insert" /\ last.ret = BoolRet(TRUE))
    => /\ ~inTxn
       /\ disk = work
       /\ last.stmt.kind = "insert"
            => /\ disk.rows[last.stmt.table] # <<>>
               /\ LastRow(disk.rows[last.stmt.table])
                    = NewRow(last.stmt.table, last.stmt.col, last.stmt.val)
       /\ last.stmt.kind = "create" => last.stmt.table \in disk.tables

C8_Durable ==
  /\ disk.tables \subseteq disk'.tables
  /\ \A t \in TableNames :
       /\ Len(disk.rows[t]) <= Len(disk'.rows[t])
       /\ SubSeq(disk'.rows[t], 1, Len(disk.rows[t])) = disk.rows[t]

C8_InsertCommits == []C8_Committed /\ [][C8_Durable]_vars

C8_Witness ==
  /\ last.op = "__init__"
  /\ conn = "open"
  /\ disk.tables = TableNames
  /\ Len(disk.rows["geo"]) = 2

\* C9: when callers interleave on the store, execute_query and fetch_one
\* return the result of their own statement or the degraded value, never
\* rows of another caller's statement.
C9_OwnRowsOnly ==
  \A c \in Callers :
    (pc[c] = "done" /\ call[c].op \in {"execute_query", "fetch_one"})
      => \/ cret[c] = Degraded(call[c].op)
         \/ call[c].op = "execute_query" /\ cret[c] = RowsRet(own[c])
         \/ call[c].op = "fetch_one" /\ own[c] # <<>>
              /\ cret[c] = RowRet(own[c][1])

====
